---- MODULE Spec2Model ----
(***************************************************************************)
(* kstars: the fetch script that collects, per language, the most starred  *)
(* repositories with `gh search repos`, and the pure helpers it uses.      *)
(* Strings are modelled as sequences of one-character strings.             *)
(***************************************************************************)
EXTENDS Integers, Sequences, FiniteSets, TLC

VARIABLES
    files,            \* OUTPUT_DIR: path (slug) -> content of "<slug>.json"
    pc,               \* position of the script
    idx,              \* position of main's for loop in the language list
    lang,             \* "$1" / $lang: the language name being processed
    fs_friendly_lang, \* local fs_friendly_lang of fetch_repos
    FETCH_PERFORMED,  \* the global flag of the script
    status,           \* $? of the gh command
    exitStatus,       \* exit status of the process, -1 while it runs
    run,              \* number of the current invocation of the script
    elapsed,          \* seconds since the last gh call of this run returned, -1 if none
    atStart,          \* history: files when this run started
    reached,          \* history: content of a language's file when it was reached
    calls,            \* history: gh calls issued per language in this run
    outcome,          \* history: how each language ended in this run
    statuses,         \* history: status of the gh call made for each language, -1 if none
    created,          \* history: languages whose file this run's redirection created
    \* a second invocation of the script, running at the same time on OUTPUT_DIR
    pcB,              \* its position, "off" when there is none
    idxB,             \* its position in the language list
    fsB,              \* its local fs_friendly_lang
    fetchB,           \* its FETCH_PERFORMED
    statusB,          \* its $? of the gh command
    reachedB,         \* history: content of a language's file when it reached it
    \* one language from the search call to its output files
    raw,              \* the records the search call returns, in the order of the API
    ghStatus,         \* the status of the search call, -1 before it
    artifact,         \* the records in the language's artifact file, or NoArtifact
    langState,        \* "Pending", "Fetched", "Written" or "Failed"
    fullOut,          \* the rows of the full dataset file, or NoOutput
    top10Out,         \* the rows of the top-10 file, or NoOutput
    \* the preview of one language on the index page
    data,             \* results.data: the parsed rows of the CSV, header row first
    dark,             \* whether document.body has the class "dark"
    theme,            \* localStorage "theme": "absent", "light" or "dark"
    section,          \* what the language's section shows: nothing yet, a table or a text
    \* the loads of the index page
    loadState,        \* per language of the page: "idle", "requested", "complete" or "error"
    requested,        \* per language of the page: the path given to Papa.parse, <<>> before
    loadedLanguagesCount, \* the counter of the page
    sortableInits,    \* number of calls of Sortable.init
    tableClasses,     \* per language of the page: whether its table is in the DOM, and its classList
    \* one call of truncateStringAtWord
    text,             \* its argument str
    limit,            \* its argument maxChars
    shown,            \* what it returned, NotShown before the call
    \* the two pages of the site in one browser
    langQuery,        \* the lang parameter of the language page's URL, <<>> if absent
    prefersDark,      \* whether (prefers-color-scheme: dark) matches
    indexInitial,     \* history: stored theme seen and theme applied when the index page loaded
    lpInitial,        \* history: the same for the language page
    lpDark,           \* whether the body of the language page has the class "dark"
    lpPhase,          \* the language page: "closed", "nolang", "loading" or "finished"
    lpLoads,          \* number of CSV loads the language page started
    lpLoading,        \* the loading message: "Loading", "hidden" or the error text
    lpContent,        \* what language-content holds, in order
    lpResult          \* history: how the load of the language page ended

\* the state of the first invocation and of OUTPUT_DIR
runVars == << files, pc, idx, lang, fs_friendly_lang, FETCH_PERFORMED, status,
              exitStatus, run, elapsed, atStart, reached, calls, outcome, statuses, created >>

\* the state of the second invocation
twoVars == << pcB, idxB, fsB, fetchB, statusB, reachedB >>

\* the state of one language's way from the search call to its output files
rankVars == << raw, ghStatus, artifact, langState, fullOut, top10Out >>

\* the state of one preview on the index page
tableVars == << data, dark, theme, section >>

\* the state of the loads of the index page
pageVars == << loadState, requested, loadedLanguagesCount, sortableInits, tableClasses >>

\* the state of one call of truncateStringAtWord
truncVars == << text, limit, shown >>

\* the state of the language page, and of the two pages' themes on load
siteVars == << langQuery, prefersDark, indexInitial, lpInitial, lpDark, lpPhase,
               lpLoads, lpLoading, lpContent, lpResult >>

\* the state of the pages
webVars == << tableVars, pageVars, truncVars, siteVars >>

\* what the first invocation never touches
extVars == << twoVars, rankVars, webVars >>

\* what the second invocation never touches, the first one's state apart
notTwo == << rankVars, webVars >>

\* what the way of one language to its output files never touches
notRank == << runVars, twoVars, webVars >>

\* what the index page never touches
notWeb == << runVars, twoVars, rankVars, truncVars, siteVars >>

\* what the language page never touches, the stored theme apart
notSite == << runVars, twoVars, rankVars, pageVars, truncVars >>

\* what a call of truncateStringAtWord never touches
notTrunc == << runVars, twoVars, rankVars, tableVars, pageVars, siteVars >>

vars == << runVars, extVars >>

-----------------------------------------------------------------------------
(* Bounds of the model *)

\* the run processes the first NumLangs entries of the configured list
NumLangs == 3
\* invocations of the script against the same OUTPUT_DIR
MaxRuns == 2
\* longest arbitrary name given to get_fs_friendly_lang
MaxNameLen == 3

(* Program constants *)
DELAY_SECONDS == 30

\* records of a search result
MaxRecords == 3
\* data rows of a parsed CSV
MaxRows == 12
\* the index page loads the first NumPageLangs entries of its language list
NumPageLangs == 5
\* longest text given to truncateStringAtWord, the examples apart
MaxTextLen == 5
\* largest maxChars given to truncateStringAtWord, the examples apart
MaxLimit == 4

(* Program constants *)
TOP_N == 10
\* the length at which the index page cuts the text of a cell
TRUNCATE_AT == 150

-----------------------------------------------------------------------------
(* The configured language list *)

languages ==
  << <<"a","c","t","i","o","n","s","c","r","i","p","t">>,
     <<"c">>,
     <<"c","+","+">>,
     <<"c","s","s">>,
     <<"c","#">>,
     <<"c","l","o","j","u","r","e">>,
     <<"c","o","f","f","e","e","s","c","r","i","p","t">>,
     <<"d","m">>,
     <<"d","a","r","t">>,
     <<"e","l","i","x","i","r">>,
     <<"g","o">>,
     <<"g","r","o","o","v","y">>,
     <<"h","t","m","l">>,
     <<"h","a","s","k","e","l","l">>,
     <<"j","a","v","a">>,
     <<"j","a","v","a","s","c","r","i","p","t">>,
     <<"j","u","l","i","a">>,
     <<"k","o","t","l","i","n">>,
     <<"l","u","a">>,
     <<"m","a","t","l","a","b">>,
     <<"o","b","j","e","c","t","i","v","e","-","c">>,
     <<"p","h","p">>,
     <<"p","e","r","l">>,
     <<"p","o","w","e","r","s","h","e","l","l">>,
     <<"p","y","t","h","o","n">>,
     <<"r">>,
     <<"r","u","b","y">>,
     <<"r","u","s","t">>,
     <<"s","c","a","l","a">>,
     <<"s","h","e","l","l">>,
     <<"s","w","i","f","t">>,
     <<"t","e","x">>,
     <<"t","y","p","e","s","c","r","i","p","t">>,
     <<"v","i","m"," ","s","c","r","i","p","t">> >>

ConfiguredNames == { languages[i] : i \in 1..Len(languages) }

\* display names of the languages whose slug is not the plain lowercase name
CanonicalNames ==
  { <<"C","+","+">>, <<"C","#">>,
    <<"O","b","j","e","c","t","i","v","e","-","C">>,
    <<"V","i","m"," ","s","c","r","i","p","t">> }

-----------------------------------------------------------------------------
(* get_fs_friendly_lang and the filters of its pipeline *)

Upper == <<"A","B","C","D","E","F","G","H","I","J","K","L","M",
           "N","O","P","Q","R","S","T","U","V","W","X","Y","Z">>
Lower == <<"a","b","c","d","e","f","g","h","i","j","k","l","m",
           "n","o","p","q","r","s","t","u","v","w","x","y","z">>
Digits == {"0","1","2","3","4","5","6","7","8","9"}

IsUpper(ch) == \E i \in 1..Len(Upper) : Upper[i] = ch
IsLower(ch) == \E i \in 1..Len(Lower) : Lower[i] = ch
\* the bracket expression [a-zA-Z0-9]
IsAlnum(ch) == IsUpper(ch) \/ IsLower(ch) \/ ch \in Digits

\* tr '[:upper:]' '[:lower:]' on one character
trChar(ch) == IF IsUpper(ch) THEN Lower[CHOOSE i \in 1..Len(Upper) : Upper[i] = ch] ELSE ch

\* tr '[:upper:]' '[:lower:]'
tr(s) == [i \in 1..Len(s) |-> trChar(s[i])]

RECURSIVE SkipNonAlnum(_)
\* the rest of s after its leading run of characters outside [a-zA-Z0-9]
SkipNonAlnum(s) ==
    IF s = <<>> \/ IsAlnum(Head(s)) THEN s ELSE SkipNonAlnum(Tail(s))

RECURSIVE sedNoPlus(_)
\* sed 's/[^a-zA-Z0-9]/_/g': the pattern without its +
sedNoPlus(s) ==
    IF s = <<>> THEN <<>>
    ELSE IF IsAlnum(Head(s)) THEN <<Head(s)>> \o sedNoPlus(Tail(s))
    ELSE <<"_">> \o sedNoPlus(Tail(s))

RECURSIVE sedRuns(_)
sedRuns(s) ==
    IF s = <<>> THEN <<>>
    ELSE IF IsAlnum(Head(s)) THEN <<Head(s)>> \o sedRuns(Tail(s))
    ELSE <<"_">> \o sedRuns(SkipNonAlnum(Tail(s)))

\* sed -r 's/[^a-zA-Z0-9]+/_/g': every maximal run of characters outside
\* [a-zA-Z0-9] is replaced by one "_"
sed(s) == sedRuns(s)

\* the default branch of the case statement
DefaultSlug(name) == tr(sed(name))

\* get_fs_friendly_lang without its first three case branches
getFsNoOverrides(name) == DefaultSlug(name)

\* get_fs_friendly_lang: the case statement on "$1"
get_fs_friendly_lang(name) ==
    CASE name = <<"c","+","+">> -> <<"c","p","p">>
      [] name = <<"c","#">> -> <<"c","s","h","a","r","p">>
      [] name = <<"o","b","j","e","c","t","i","v","e","-","c">>
            -> <<"o","b","j","e","c","t","i","v","e","_","c">>
      [] name = <<"v","i","m"," ","s","c","r","i","p","t">>
            -> <<"v","i","m","_","s","c","r","i","p","t">>
      [] OTHER -> DefaultSlug(name)

-----------------------------------------------------------------------------
(* The state of OUTPUT_DIR and of one invocation of the script *)

RunLangs == SubSeq(languages, 1, NumLangs)
Positions == 1..NumLangs

\* the paths "$OUTPUT_DIR/<slug>.json" of the languages of the run
Paths == { get_fs_friendly_lang(RunLangs[i]) : i \in Positions }

Absent == [kind |-> "absent", by |-> 0]
NotReached == [kind |-> "unreached", by |-> 0]
Unset == <<"?">>

\* a file a redirection has just created or truncated
EmptyFile(r) == [kind |-> "empty", by |-> r]
\* a file holding part of the output of gh
PartialFile(r) == [kind |-> "partial", by |-> r]
\* a file holding the whole JSON output of a successful gh call
FullFile(r) == [kind |-> "full", by |-> r]

\* [ -f "$output_file" ]
Exists(path) == files[path].kind # "absent"

\* exit statuses of gh: 0 success, 1 error (network, rate limit), 4 authentication
GhStatuses == {0, 1, 4}

\* no second invocation
TwoIdle ==
    /\ pcB = "off"
    /\ idxB = 1
    /\ fsB = Unset
    /\ fetchB = 0
    /\ statusB = 0
    /\ reachedB = [i \in Positions |-> NotReached]

\* no artifact file
NoArtifact == [stored |-> FALSE, records |-> <<>>]
\* no output file
NoOutput == [header |-> <<>>, rows |-> <<>>]

\* no language on its way to its output files
RankIdle ==
    /\ raw = <<>>
    /\ ghStatus = -1
    /\ artifact = NoArtifact
    /\ langState = "Pending"
    /\ fullOut = NoOutput
    /\ top10Out = NoOutput

\* a section of the index page that shows nothing yet
NoSection == [kind |-> "none", theme |-> "", head |-> <<>>, rows |-> <<>>]

\* no preview being built
TableIdle ==
    /\ data = <<>>
    /\ dark = FALSE
    /\ theme = "absent"
    /\ section = NoSection

PagePositions == 1..NumPageLangs

\* a language of the page without a table in the DOM
NoTable == [rendered |-> FALSE, classes |-> {}]

\* the index page not opened
PageIdle ==
    /\ loadState = [i \in PagePositions |-> "idle"]
    /\ requested = [i \in PagePositions |-> <<>>]
    /\ loadedLanguagesCount = 0
    /\ sortableInits = 0
    /\ tableClasses = [i \in PagePositions |-> NoTable]

\* the result of a call that was not made
NotShown == <<"?", "?", "?", "?">>

\* no call of truncateStringAtWord
TruncIdle ==
    /\ text = <<>>
    /\ limit = 0
    /\ shown = NotShown

\* a page that was not opened
NotOpened == [saw |-> "", dark |-> FALSE, opened |-> FALSE]

\* a load that has not ended
NoResult == [dataLength |-> -1, errors |-> FALSE, failed |-> FALSE]

\* the language page not opened
SiteIdle ==
    /\ langQuery = <<>>
    /\ prefersDark = FALSE
    /\ indexInitial = NotOpened
    /\ lpInitial = NotOpened
    /\ lpDark = FALSE
    /\ lpPhase = "closed"
    /\ lpLoads = 0
    /\ lpLoading = "Loading"
    /\ lpContent = <<>>
    /\ lpResult = NoResult

WebIdle == TableIdle /\ PageIdle /\ TruncIdle /\ SiteIdle

ExtIdle == TwoIdle /\ RankIdle /\ WebIdle

FreshRun ==
    /\ pc = "fetch_repos"
    /\ idx = 1
    /\ lang = <<>>
    /\ fs_friendly_lang = Unset
    /\ FETCH_PERFORMED = 0
    /\ status = 0
    /\ exitStatus = -1
    /\ elapsed = -1
    /\ reached = [i \in Positions |-> NotReached]
    /\ calls = [i \in Positions |-> 0]
    /\ outcome = [i \in Positions |-> "pending"]
    /\ statuses = [i \in Positions |-> -1]
    /\ created = {}

Init ==
    /\ files \in [Paths -> {Absent, FullFile(0)}]
    /\ atStart = files
    /\ run = 1
    /\ FreshRun
    /\ ExtIdle

\* end of fetch_repos: main's loop goes to the next language
NextLang ==
    /\ idx' = idx + 1
    /\ pc' = "fetch_repos"

\* fetch_repos up to the cached-check that never skips: the script before the
\* check was added
CheckCachedAlwaysFetch ==
    /\ UNCHANGED extVars
    /\ pc = "fetch_repos"
    /\ idx <= NumLangs
    /\ lang' = RunLangs[idx]
    /\ fs_friendly_lang' = get_fs_friendly_lang(lang')
    /\ reached' = [reached EXCEPT ![idx] = files[fs_friendly_lang']]
    /\ pc' = "delay"
    /\ UNCHANGED << files, idx, FETCH_PERFORMED, status, exitStatus, run, elapsed,
                    atStart, calls, outcome, created, statuses >>

\* a cached-check that also requires the file to hold a complete result
CheckCachedValidating ==
    /\ UNCHANGED extVars
    /\ pc = "fetch_repos"
    /\ idx <= NumLangs
    /\ lang' = RunLangs[idx]
    /\ fs_friendly_lang' = get_fs_friendly_lang(lang')
    /\ reached' = [reached EXCEPT ![idx] = files[fs_friendly_lang']]
    /\ IF files[fs_friendly_lang'].kind = "full"
         THEN /\ FETCH_PERFORMED' = 0
              /\ outcome' = [outcome EXCEPT ![idx] = "skipped"]
              /\ NextLang
         ELSE /\ pc' = "delay"
              /\ UNCHANGED << idx, FETCH_PERFORMED, outcome >>
    /\ UNCHANGED << files, status, exitStatus, run, elapsed, atStart, calls, created, statuses >>

\* fetch_repos from its entry through the cached-check
CheckCached ==
    /\ UNCHANGED extVars
    /\ pc = "fetch_repos"
    /\ idx <= NumLangs
    /\ lang' = RunLangs[idx]
    /\ fs_friendly_lang' = get_fs_friendly_lang(lang')
    /\ reached' = [reached EXCEPT ![idx] = files[fs_friendly_lang']]
    /\ IF Exists(fs_friendly_lang')
         THEN /\ FETCH_PERFORMED' = 0
              /\ outcome' = [outcome EXCEPT ![idx] = "skipped"]
              /\ NextLang
         ELSE /\ pc' = "delay"
              /\ UNCHANGED << idx, FETCH_PERFORMED, outcome >>
    /\ UNCHANGED << files, status, exitStatus, run, elapsed, atStart, calls, created, statuses >>

\* the delay step without its sleep
DelayNoSleep ==
    /\ UNCHANGED extVars
    /\ pc = "delay"
    /\ pc' = "exec"
    /\ UNCHANGED << files, idx, lang, fs_friendly_lang, FETCH_PERFORMED, status,
                    exitStatus, run, elapsed, atStart, reached, calls, outcome, created, statuses >>

\* a delay step that sleeps whatever the flag says
DelayAlways ==
    /\ UNCHANGED extVars
    /\ pc = "delay"
    /\ elapsed' = elapsed + DELAY_SECONDS
    /\ pc' = "exec"
    /\ UNCHANGED << files, idx, lang, fs_friendly_lang, FETCH_PERFORMED, status,
                    exitStatus, run, atStart, reached, calls, outcome, created, statuses >>

\* if [ "$FETCH_PERFORMED" -eq 1 ]; then sleep "$DELAY_SECONDS"; fi
Delay ==
    /\ UNCHANGED extVars
    /\ pc = "delay"
    /\ elapsed' = IF FETCH_PERFORMED = 1 THEN elapsed + DELAY_SECONDS ELSE elapsed
    /\ pc' = "exec"
    /\ UNCHANGED << files, idx, lang, fs_friendly_lang, FETCH_PERFORMED, status,
                    exitStatus, run, atStart, reached, calls, outcome, created, statuses >>

\* the shell opens > "$output_file" (created or truncated) and starts gh:
\* the search call is issued
Redirect ==
    /\ UNCHANGED extVars
    /\ pc = "exec"
    /\ files' = [files EXCEPT ![fs_friendly_lang] = EmptyFile(run)]
    /\ created' = IF Exists(fs_friendly_lang) THEN created ELSE created \cup {idx}
    /\ calls' = [calls EXCEPT ![idx] = @ + 1]
    /\ pc' = "gh"
    /\ UNCHANGED << idx, lang, fs_friendly_lang, FETCH_PERFORMED, status, exitStatus,
                    run, elapsed, atStart, reached, outcome, statuses >>

\* gh has written a part of its output
GhWrite ==
    /\ UNCHANGED extVars
    /\ pc = "gh"
    /\ files[fs_friendly_lang].kind = "empty"
    /\ files' = [files EXCEPT ![fs_friendly_lang] = PartialFile(run)]
    /\ UNCHANGED << pc, idx, lang, fs_friendly_lang, FETCH_PERFORMED, status, exitStatus,
                    run, elapsed, atStart, reached, calls, outcome, created, statuses >>

\* gh returns: with status 0 its whole output is in the file, with another
\* status the file holds whatever was written
GhExit ==
    /\ UNCHANGED extVars
    /\ pc = "gh"
    /\ \E st \in GhStatuses :
          /\ status' = st
          /\ files' = IF st = 0 THEN [files EXCEPT ![fs_friendly_lang] = FullFile(run)]
                                ELSE files
    /\ statuses' = [statuses EXCEPT ![idx] = status']
    /\ elapsed' = 0
    /\ pc' = "verify"
    /\ UNCHANGED << idx, lang, fs_friendly_lang, FETCH_PERFORMED, exitStatus, run,
                    atStart, reached, calls, outcome, created >>

\* a verification that halts the script on a failed search
VerifyHalting ==
    /\ UNCHANGED extVars
    /\ pc = "verify"
    /\ IF status = 0
         THEN /\ FETCH_PERFORMED' = 1
              /\ outcome' = [outcome EXCEPT ![idx] = "saved"]
              /\ NextLang
              /\ UNCHANGED << files, exitStatus >>
         ELSE /\ files' = [files EXCEPT ![fs_friendly_lang] = Absent]
              /\ FETCH_PERFORMED' = 0
              /\ outcome' = [outcome EXCEPT ![idx] = "failed"]
              /\ pc' = "done"
              /\ exitStatus' = 1
              /\ UNCHANGED idx
    /\ UNCHANGED << lang, fs_friendly_lang, status, run, elapsed, atStart, reached,
                    calls, created, statuses >>

\* a verification that tries a failed search again
VerifyRetrying ==
    /\ UNCHANGED extVars
    /\ pc = "verify"
    /\ IF status = 0
         THEN /\ FETCH_PERFORMED' = 1
              /\ outcome' = [outcome EXCEPT ![idx] = "saved"]
              /\ NextLang
              /\ UNCHANGED files
         ELSE /\ files' = [files EXCEPT ![fs_friendly_lang] = Absent]
              /\ FETCH_PERFORMED' = 0
              /\ IF calls[idx] < 2
                   THEN /\ pc' = "delay"
                        /\ UNCHANGED << idx, outcome >>
                   ELSE /\ outcome' = [outcome EXCEPT ![idx] = "failed"]
                        /\ NextLang
    /\ UNCHANGED << lang, fs_friendly_lang, status, exitStatus, run, elapsed, atStart,
                    reached, calls, created, statuses >>

\* a verification whose clean-up removes every file of OUTPUT_DIR
VerifyRemoveAll ==
    /\ UNCHANGED extVars
    /\ pc = "verify"
    /\ IF status = 0
         THEN /\ FETCH_PERFORMED' = 1
              /\ outcome' = [outcome EXCEPT ![idx] = "saved"]
              /\ UNCHANGED files
         ELSE /\ files' = [p \in Paths |-> Absent]
              /\ FETCH_PERFORMED' = 0
              /\ outcome' = [outcome EXCEPT ![idx] = "failed"]
    /\ NextLang
    /\ UNCHANGED << lang, fs_friendly_lang, status, exitStatus, run, elapsed, atStart,
                    reached, calls, created, statuses >>

\* a verification that leaves the flag set after a failed search
VerifyFlagOnFailure ==
    /\ UNCHANGED extVars
    /\ pc = "verify"
    /\ IF status = 0
         THEN /\ outcome' = [outcome EXCEPT ![idx] = "saved"]
              /\ UNCHANGED files
         ELSE /\ files' = [files EXCEPT ![fs_friendly_lang] = Absent]
              /\ outcome' = [outcome EXCEPT ![idx] = "failed"]
    /\ FETCH_PERFORMED' = 1
    /\ NextLang
    /\ UNCHANGED << lang, fs_friendly_lang, status, exitStatus, run, elapsed, atStart,
                    reached, calls, created, statuses >>

\* a verification without the clean-up of the output file
VerifyNoCleanup ==
    /\ UNCHANGED extVars
    /\ pc = "verify"
    /\ IF status = 0
         THEN /\ FETCH_PERFORMED' = 1
              /\ outcome' = [outcome EXCEPT ![idx] = "saved"]
         ELSE /\ FETCH_PERFORMED' = 0
              /\ outcome' = [outcome EXCEPT ![idx] = "failed"]
    /\ NextLang
    /\ UNCHANGED << files, lang, fs_friendly_lang, status, exitStatus, run, elapsed,
                    atStart, reached, calls, created, statuses >>

\* if [ $? -eq 0 ] ... else rm -f "$output_file" ... fi, and the return to main
Verify ==
    /\ UNCHANGED extVars
    /\ pc = "verify"
    /\ IF status = 0
         THEN /\ FETCH_PERFORMED' = 1
              /\ outcome' = [outcome EXCEPT ![idx] = "saved"]
              /\ UNCHANGED files
         ELSE /\ files' = [files EXCEPT ![fs_friendly_lang] = Absent]
              /\ FETCH_PERFORMED' = 0
              /\ outcome' = [outcome EXCEPT ![idx] = "failed"]
    /\ NextLang
    /\ UNCHANGED << lang, fs_friendly_lang, status, exitStatus, run, elapsed, atStart,
                    reached, calls, created, statuses >>

\* an end of main that reports a failed language in the exit status
MainDoneReporting ==
    /\ UNCHANGED extVars
    /\ pc = "fetch_repos"
    /\ idx = NumLangs + 1
    /\ pc' = "done"
    /\ exitStatus' = IF \E i \in Positions : outcome[i] = "failed" THEN 1 ELSE 0
    /\ UNCHANGED << files, idx, lang, fs_friendly_lang, FETCH_PERFORMED, status, run,
                    elapsed, atStart, reached, calls, outcome, created, statuses >>

\* the loop of main is over: the closing echo is the last command of the
\* script, and its status is the exit status
MainDone ==
    /\ UNCHANGED extVars
    /\ pc = "fetch_repos"
    /\ idx = NumLangs + 1
    /\ pc' = "done"
    /\ exitStatus' = 0
    /\ UNCHANGED << files, idx, lang, fs_friendly_lang, FETCH_PERFORMED, status, run,
                    elapsed, atStart, reached, calls, outcome, created, statuses >>

\* the script and its gh child are killed (SIGKILL, power loss) at any point
Interrupt ==
    /\ UNCHANGED extVars
    /\ pc \notin {"done", "crashed", "slug"}
    /\ pc' = "crashed"
    /\ exitStatus' = 137
    /\ UNCHANGED << files, idx, lang, fs_friendly_lang, FETCH_PERFORMED, status, run,
                    elapsed, atStart, reached, calls, outcome, created, statuses >>

\* the script is invoked again on the same OUTPUT_DIR
Rerun ==
    /\ UNCHANGED extVars
    /\ pc \in {"done", "crashed"}
    /\ run < MaxRuns
    /\ run' = run + 1
    /\ atStart' = files
    /\ pc' = "fetch_repos"
    /\ idx' = 1
    /\ lang' = <<>>
    /\ fs_friendly_lang' = Unset
    /\ FETCH_PERFORMED' = 0
    /\ status' = 0
    /\ exitStatus' = -1
    /\ elapsed' = -1
    /\ reached' = [i \in Positions |-> NotReached]
    /\ calls' = [i \in Positions |-> 0]
    /\ outcome' = [i \in Positions |-> "pending"]
    /\ statuses' = [i \in Positions |-> -1]
    /\ created' = {}
    /\ UNCHANGED files

Next ==
    \/ CheckCached
    \/ Delay
    \/ Redirect
    \/ GhWrite
    \/ GhExit
    \/ Verify
    \/ MainDone
    \/ Interrupt
    \/ Rerun

Spec == Init /\ [][Next]_vars

\* one invocation that nothing kills: the shell runs each command after the
\* one before, and every gh call returns
NextFair ==
    \/ CheckCached
    \/ Delay
    \/ Redirect
    \/ GhWrite
    \/ GhExit
    \/ Verify
    \/ MainDone

SpecFair == Init /\ [][NextFair]_vars /\ WF_vars(NextFair)

-----------------------------------------------------------------------------
(* get_fs_friendly_lang applied to arbitrary names *)

NameChars == {"c", "C", "+", "#", " ", "1"}

RECURSIVE NamesUpTo(_)
NamesUpTo(n) ==
    IF n = 0 THEN {}
    ELSE LET shorter == NamesUpTo(n - 1)
         IN  shorter \cup { <<ch>> : ch \in NameChars }
                     \cup { Append(s, ch) : s \in { t \in shorter : Len(t) = n - 1 },
                                            ch \in NameChars }

Names == NamesUpTo(MaxNameLen) \cup ConfiguredNames \cup CanonicalNames

InitSlug ==
    /\ lang \in Names
    /\ fs_friendly_lang = Unset
    /\ pc = "slug"
    /\ files = [p \in Paths |-> Absent]
    /\ atStart = files
    /\ run = 1
    /\ idx = 1
    /\ FETCH_PERFORMED = 0
    /\ status = 0
    /\ exitStatus = -1
    /\ elapsed = -1
    /\ reached = [i \in Positions |-> NotReached]
    /\ calls = [i \in Positions |-> 0]
    /\ outcome = [i \in Positions |-> "pending"]
    /\ statuses = [i \in Positions |-> -1]
    /\ created = {}
    /\ ExtIdle

\* fs_friendly_lang=$(get_fs_friendly_lang "$lang")
SlugCall ==
    /\ UNCHANGED extVars
    /\ pc = "slug"
    /\ fs_friendly_lang = Unset
    /\ fs_friendly_lang' = get_fs_friendly_lang(lang)
    /\ UNCHANGED << files, pc, idx, lang, FETCH_PERFORMED, status, exitStatus, run,
                    elapsed, atStart, reached, calls, outcome, created, statuses >>

NextSlug == SlugCall

SpecSlug == InitSlug /\ [][NextSlug]_vars

-----------------------------------------------------------------------------
(* Two invocations of the script running at the same time on OUTPUT_DIR *)

\* the number the second invocation's files are marked with
RunB == run + 1

\* fetch_repos of the second invocation, from its entry through the cached-check
\* and, the file being absent, through its sleep, which changes nothing but the
\* time
CheckCachedB ==
    /\ UNCHANGED notTwo
    /\ pcB = "fetch_repos"
    /\ idxB <= NumLangs
    /\ fsB' = get_fs_friendly_lang(RunLangs[idxB])
    /\ reachedB' = [reachedB EXCEPT ![idxB] = files[fsB']]
    /\ IF Exists(fsB')
         THEN /\ fetchB' = 0
              /\ idxB' = idxB + 1
              /\ pcB' = "fetch_repos"
         ELSE /\ pcB' = "exec"
              /\ UNCHANGED << idxB, fetchB >>
    /\ UNCHANGED << runVars, statusB >>

\* the second invocation's shell opens > "$output_file" and starts gh
RedirectB ==
    /\ UNCHANGED notTwo
    /\ pcB = "exec"
    /\ files' = [files EXCEPT ![fsB] = EmptyFile(RunB)]
    /\ pcB' = "gh"
    /\ UNCHANGED << pc, idx, lang, fs_friendly_lang, FETCH_PERFORMED, status, exitStatus,
                    run, elapsed, atStart, reached, calls, outcome, statuses, created >>
    /\ UNCHANGED << idxB, fsB, fetchB, statusB, reachedB >>

\* the second invocation's gh returns
GhExitB ==
    /\ UNCHANGED notTwo
    /\ pcB = "gh"
    /\ \E st \in GhStatuses :
          /\ statusB' = st
          /\ files' = IF st = 0 THEN [files EXCEPT ![fsB] = FullFile(RunB)] ELSE files
    /\ pcB' = "verify"
    /\ UNCHANGED << pc, idx, lang, fs_friendly_lang, FETCH_PERFORMED, status, exitStatus,
                    run, elapsed, atStart, reached, calls, outcome, statuses, created >>
    /\ UNCHANGED << idxB, fsB, fetchB, reachedB >>

\* the second invocation's verification of $?, and its return to main
VerifyB ==
    /\ UNCHANGED notTwo
    /\ pcB = "verify"
    /\ IF statusB = 0
         THEN /\ fetchB' = 1
              /\ UNCHANGED files
         ELSE /\ files' = [files EXCEPT ![fsB] = Absent]
              /\ fetchB' = 0
    /\ idxB' = idxB + 1
    /\ pcB' = "fetch_repos"
    /\ UNCHANGED << pc, idx, lang, fs_friendly_lang, FETCH_PERFORMED, status, exitStatus,
                    run, elapsed, atStart, reached, calls, outcome, statuses, created >>
    /\ UNCHANGED << fsB, statusB, reachedB >>

\* the end of the second invocation's main
MainDoneB ==
    /\ UNCHANGED notTwo
    /\ pcB = "fetch_repos"
    /\ idxB = NumLangs + 1
    /\ pcB' = "done"
    /\ UNCHANGED << runVars, idxB, fsB, fetchB, statusB, reachedB >>

InitTwo ==
    /\ files \in [Paths -> {Absent, FullFile(0)}]
    /\ atStart = files
    /\ run = 1
    /\ FreshRun
    /\ pcB = "fetch_repos"
    /\ idxB = 1
    /\ fsB = Unset
    /\ fetchB = 0
    /\ statusB = 0
    /\ reachedB = [i \in Positions |-> NotReached]
    /\ RankIdle
    /\ WebIdle

\* each gh call is taken to write its output in one piece: what ends up in a
\* file two calls write at the same time is not looked at
NextTwo ==
    \/ CheckCached
    \/ Delay
    \/ Redirect
    \/ GhExit
    \/ Verify
    \/ MainDone
    \/ CheckCachedB
    \/ RedirectB
    \/ GhExitB
    \/ VerifyB
    \/ MainDoneB

SpecTwo == InitTwo /\ [][NextTwo]_vars

-----------------------------------------------------------------------------
(* One language from its search call to its output files *)

\* full names of repositories
RecNames == SubSeq(<<"a/a", "b/b", "c/c", "d/d", "e/e">>, 1, MaxRecords)
StarValues == {5, 10}

Records == [name : {RecNames[i] : i \in 1..Len(RecNames)}, stars : StarValues]

\* the result sets of a search: at most MaxRecords records, no full name twice
RawLists ==
    { s \in UNION { [1..n -> Records] : n \in 0..MaxRecords } :
        \A i, j \in 1..Len(s) : i # j => s[i].name # s[j].name }

\* the header row of the dataset files
Header == <<"Ranking", "Project Name", "Repo URL", "Description", "Stars", "Forks",
            "Watchers", "Open Issues", "Size (KB)", "Created At", "Last Commit">>

RECURSIVE InsertBeforeEqual(_, _)
\* an insertion that puts a record before the records of equal stars
InsertBeforeEqual(s, r) ==
    IF s = <<>> THEN <<r>>
    ELSE IF Head(s).stars > r.stars THEN <<Head(s)>> \o InsertBeforeEqual(Tail(s), r)
    ELSE <<r>> \o s

RECURSIVE InsertByStars(_, _)
\* r put into s, sorted by stars descending, after the records of equal stars
InsertByStars(s, r) ==
    IF s = <<>> THEN <<r>>
    ELSE IF Head(s).stars >= r.stars THEN <<Head(s)>> \o InsertByStars(Tail(s), r)
    ELSE <<r>> \o s

RECURSIVE SortUnstable(_)
SortUnstable(recs) ==
    IF recs = <<>> THEN <<>>
    ELSE InsertBeforeEqual(SortUnstable(SubSeq(recs, 1, Len(recs) - 1)), recs[Len(recs)])

RECURSIVE SortByStars(_)
\* the stable sort by star count descending
SortByStars(recs) ==
    IF recs = <<>> THEN <<>>
    ELSE InsertByStars(SortByStars(SubSeq(recs, 1, Len(recs) - 1)), recs[Len(recs)])

\* a ranking whose sort does not keep the order of records of equal stars
rankUnstable(recs) ==
    LET s == SortUnstable(recs)
    IN  [i \in 1..Len(s) |-> [rank |-> i, name |-> s[i].name, stars |-> s[i].stars]]

\* rank(records): stable sort by stars descending, rank by position
rank(recs) ==
    LET s == SortByStars(recs)
    IN  [i \in 1..Len(s) |-> [rank |-> i, name |-> s[i].name, stars |-> s[i].stars]]

\* the first n elements of s, all of them if there are fewer
Prefix(s, n) == SubSeq(s, 1, IF Len(s) < n THEN Len(s) ELSE n)

InitRank ==
    /\ raw \in RawLists
    /\ ghStatus = -1
    /\ artifact = NoArtifact
    /\ langState = "Pending"
    /\ fullOut = NoOutput
    /\ top10Out = NoOutput
    /\ files = [p \in Paths |-> Absent]
    /\ atStart = files
    /\ run = 1
    /\ FreshRun
    /\ TwoIdle
    /\ WebIdle

\* a search step that takes an empty result set for a failure
FetchOneEmptyFails ==
    /\ langState = "Pending"
    /\ \E st \in GhStatuses :
          /\ ghStatus' = st
          /\ IF st = 0 /\ raw # <<>>
               THEN /\ artifact' = [stored |-> TRUE, records |-> raw]
                    /\ langState' = "Fetched"
               ELSE /\ artifact' = NoArtifact
                    /\ langState' = "Failed"
    /\ UNCHANGED << raw, fullOut, top10Out, notRank >>

\* the search call of fetch_repos and the verification of its status, for one
\* language: with status 0 the records gh printed are the artifact, with any
\* other status the file is removed
FetchOne ==
    /\ langState = "Pending"
    /\ \E st \in GhStatuses :
          /\ ghStatus' = st
          /\ IF st = 0
               THEN /\ artifact' = [stored |-> TRUE, records |-> raw]
                    /\ langState' = "Fetched"
               ELSE /\ artifact' = NoArtifact
                    /\ langState' = "Failed"
    /\ UNCHANGED << raw, fullOut, top10Out, notRank >>

\* the artifact is ranked and the two dataset files are written
RankWrite ==
    /\ langState = "Fetched"
    /\ fullOut' = [header |-> Header, rows |-> rank(artifact.records)]
    /\ top10Out' = [header |-> Header, rows |-> Prefix(rank(artifact.records), TOP_N)]
    /\ langState' = "Written"
    /\ UNCHANGED << raw, ghStatus, artifact, notRank >>

NextRank ==
    \/ FetchOne
    \/ RankWrite

SpecRank == InitRank /\ [][NextRank]_vars

-----------------------------------------------------------------------------
(* The preview table of the index page *)

DigitChars == <<"0", "1", "2", "3", "4", "5", "6", "7", "8", "9">>

\* the decimal text of k, 0 <= k < 100
NumCell(k) ==
    IF k < 10 THEN << DigitChars[k + 1] >>
    ELSE << DigitChars[(k \div 10) + 1], DigitChars[(k % 10) + 1] >>

\* texts of a cell: a short one, one over the limit made of words, one over
\* the limit without a space
ShortCell == <<"a", " ", "b">>
LongCell == [i \in 1..(TRUNCATE_AT + 1) |-> IF i % 8 = 0 THEN " " ELSE "x"]
LongWord == [i \in 1..(TRUNCATE_AT + 1) |-> "x"]
CellTexts == << ShortCell, LongCell, LongWord >>

HeaderCells == << <<"R", "a", "n", "k", "i", "n", "g">>,
                  <<"D", "e", "s", "c", "r", "i", "p", "t", "i", "o", "n">> >>

\* the k-th data row: its number and a text; one cell only if it is the short row
DataRow(k, shift, shortAt) ==
    IF k = shortAt THEN << NumCell(k) >>
    ELSE << NumCell(k), CellTexts[((k + shift) % Len(CellTexts)) + 1] >>

\* what Papa.parse can hand to the complete callback: nothing at all, or the
\* header row and up to MaxRows data rows, one of which may lack a cell
Datasets ==
    { <<>> } \cup
    { <<HeaderCells>> \o [k \in 1..n |-> DataRow(k, shift, shortAt)] :
        n \in 0..MaxRows, shift \in 0..(Len(CellTexts) - 1), shortAt \in 0..MaxRows }

\* str.lastIndexOf(' '), counted from 1; 0 where the code has -1
LastSpaceIndex(str) ==
    IF \E i \in 1..Len(str) : str[i] = " "
      THEN CHOOSE i \in 1..Len(str) :
              str[i] = " " /\ \A j \in (i + 1)..Len(str) : str[j] # " "
      ELSE 0

Ellipsis == <<".", ".", ".">>

\* a cut at maxChars that does not look for a space
truncateAnywhere(str, maxChars) ==
    IF Len(str) <= maxChars THEN str
    ELSE SubSeq(str, 1, maxChars) \o Ellipsis

\* truncateStringAtWord(str, maxChars)
truncateStringAtWord(str, maxChars) ==
    IF Len(str) <= maxChars THEN str
    ELSE LET truncated == SubSeq(str, 1, maxChars)
             lastSpaceIndex == LastSpaceIndex(truncated)
         IN  IF lastSpaceIndex = 0 THEN truncated \o Ellipsis
             ELSE SubSeq(truncated, 1, lastSpaceIndex - 1) \o Ellipsis

Min(a, b) == IF a < b THEN a ELSE b

ThemeClass(isDark) == IF isDark THEN "sortable-theme-dark" ELSE "sortable-theme-light"

\* a table built without the limit of ten rows
createTableAll(dt, isDark) ==
    [ kind  |-> "table",
      theme |-> ThemeClass(isDark),
      head  |-> IF dt # <<>> THEN dt[1] ELSE <<>>,
      rows  |-> [i \in 1..(Len(dt) - 1) |->
                    [c \in 1..Len(dt[i + 1]) |->
                        truncateStringAtWord(dt[i + 1][c], TRUNCATE_AT)]] ]

\* createTable(data): the header row, then the rows data[1] .. data[min(length, 11) - 1]
\* (counted from 0), each cell through truncateStringAtWord
createTable(dt, isDark) ==
    [ kind  |-> "table",
      theme |-> ThemeClass(isDark),
      head  |-> IF dt # <<>> THEN dt[1] ELSE <<>>,
      rows  |-> [i \in 1..(Min(Len(dt), TOP_N + 1) - 1) |->
                    [c \in 1..Len(dt[i + 1]) |->
                        truncateStringAtWord(dt[i + 1][c], TRUNCATE_AT)]] ]

\* the text shown in place of a table
NoPreview == [kind |-> "text", theme |-> "", head |-> <<>>, rows |-> <<>>]

\* values of localStorage.getItem("theme")
StoredThemes == {"absent", "light", "dark"}

\* the argument of the index page's first applyTheme: savedTheme === "dark"
indexInitialDark(savedTheme) == savedTheme = "dark"

\* classList.toggle(name, force)
classToggle(classes, name, force) ==
    IF force THEN classes \cup {name} ELSE classes \ {name}

\* what applyTheme(isDark) does to every table[data-sortable] of the DOM
applyThemeToTables(tables, isDark) ==
    [i \in DOMAIN tables |->
        IF tables[i].rendered
          THEN [tables[i] EXCEPT !.classes =
                   classToggle(classToggle(@, "sortable-theme-dark", isDark),
                               "sortable-theme-light", ~isDark)]
          ELSE tables[i]]

InitTable ==
    /\ data \in Datasets
    /\ theme \in StoredThemes
    /\ dark = indexInitialDark(theme)
    /\ section = NoSection
    /\ PageIdle
    /\ TruncIdle
    /\ SiteIdle
    /\ files = [p \in Paths |-> Absent]
    /\ atStart = files
    /\ run = 1
    /\ FreshRun
    /\ TwoIdle
    /\ RankIdle

\* the complete callback of loadCSV, for one language
Complete ==
    /\ section = NoSection
    /\ section' = IF Len(data) > 1 THEN createTable(data, dark) ELSE NoPreview
    /\ UNCHANGED << data, dark, theme, pageVars, notWeb >>

\* a click that changes the class of the body and the stored theme only
ThemeToggleBodyOnly ==
    /\ dark' = ~dark
    /\ theme' = IF ~dark THEN "dark" ELSE "light"
    /\ UNCHANGED << data, section, pageVars, notWeb >>

\* a click on the theme toggle: applyTheme(!isDark), then
\* localStorage.setItem("theme", !isDark ? "dark" : "light")
ThemeToggle ==
    /\ dark' = ~dark
    /\ section' = IF section.kind = "table"
                    THEN [section EXCEPT !.theme = ThemeClass(~dark)]
                    ELSE section
    /\ tableClasses' = applyThemeToTables(tableClasses, ~dark)
    /\ theme' = IF ~dark THEN "dark" ELSE "light"
    /\ UNCHANGED << data, loadState, requested, loadedLanguagesCount, sortableInits, notWeb >>

NextTable ==
    \/ Complete
    \/ ThemeToggle

SpecTable == InitTable /\ [][NextTable]_vars

-----------------------------------------------------------------------------
(* The index page: one load per language, and the paths of the datasets *)

\* languages of the index page: pairs of file key and displayed name
pageLanguages ==
  << << <<"A","c","t","i","o","n","S","c","r","i","p","t">>,
        <<"A","c","t","i","o","n","S","c","r","i","p","t">> >>,
     << <<"C">>,
        <<"C">> >>,
     << <<"C","S","h","a","r","p">>,
        <<"C","#">> >>,
     << <<"C","P","P">>,
        <<"C","+","+">> >>,
     << <<"C","l","o","j","u","r","e">>,
        <<"C","l","o","j","u","r","e">> >>,
     << <<"C","o","f","f","e","e","S","c","r","i","p","t">>,
        <<"C","o","f","f","e","e","S","c","r","i","p","t">> >>,
     << <<"C","S","S">>,
        <<"C","S","S">> >>,
     << <<"D","a","r","t">>,
        <<"D","a","r","t">> >>,
     << <<"D","M">>,
        <<"D","M">> >>,
     << <<"E","l","i","x","i","r">>,
        <<"E","l","i","x","i","r">> >>,
     << <<"G","o">>,
        <<"G","o">> >>,
     << <<"G","r","o","o","v","y">>,
        <<"G","r","o","o","v","y">> >>,
     << <<"H","a","s","k","e","l","l">>,
        <<"H","a","s","k","e","l","l">> >>,
     << <<"H","T","M","L">>,
        <<"H","T","M","L">> >>,
     << <<"J","a","v","a">>,
        <<"J","a","v","a">> >>,
     << <<"J","a","v","a","S","c","r","i","p","t">>,
        <<"J","a","v","a","S","c","r","i","p","t">> >>,
     << <<"J","u","l","i","a">>,
        <<"J","u","l","i","a">> >>,
     << <<"K","o","t","l","i","n">>,
        <<"K","o","t","l","i","n">> >>,
     << <<"L","u","a">>,
        <<"L","u","a">> >>,
     << <<"M","A","T","L","A","B">>,
        <<"M","A","T","L","A","B">> >>,
     << <<"O","b","j","e","c","t","i","v","e","-","C">>,
        <<"O","b","j","e","c","t","i","v","e","-","C">> >>,
     << <<"P","e","r","l">>,
        <<"P","e","r","l">> >>,
     << <<"P","H","P">>,
        <<"P","H","P">> >>,
     << <<"P","o","w","e","r","S","h","e","l","l">>,
        <<"P","o","w","e","r","S","h","e","l","l">> >>,
     << <<"P","r","o","l","o","g">>,
        <<"P","r","o","l","o","g">> >>,
     << <<"P","y","t","h","o","n">>,
        <<"P","y","t","h","o","n">> >>,
     << <<"R">>,
        <<"R">> >>,
     << <<"R","u","b","y">>,
        <<"R","u","b","y">> >>,
     << <<"R","u","s","t">>,
        <<"R","u","s","t">> >>,
     << <<"S","c","a","l","a">>,
        <<"S","c","a","l","a">> >>,
     << <<"S","h","e","l","l">>,
        <<"S","h","e","l","l">> >>,
     << <<"S","w","i","f","t">>,
        <<"S","w","i","f","t">> >>,
     << <<"T","e","X">>,
        <<"T","e","X">> >>,
     << <<"T","y","p","e","S","c","r","i","p","t">>,
        <<"T","y","p","e","S","c","r","i","p","t">> >>,
     << <<"V","i","m","-","s","c","r","i","p","t">>,
        <<"V","i","m"," ","s","c","r","i","p","t">> >> >>

\* "data/processed"
ProcessedFolder == <<"d","a","t","a","/","p","r","o","c","e","s","s","e","d">>
\* "top10_"
Top10Prefix == <<"t","o","p","1","0","_">>
\* ".csv"
CsvSuffix == <<".","c","s","v">>
\* "../data/processed/"
LanguagePageFolder == <<".",".","/","d","a","t","a","/","p","r","o","c","e","s","s","e","d","/">>

\* a path built from the displayed name of the language
csvUrlDisplay(folder, prefix, language) ==
    folder \o <<"/">> \o prefix \o language[2] \o CsvSuffix

\* `${folder}/${prefix}${language[0]}.csv`
csvUrl(folder, prefix, language) ==
    folder \o <<"/">> \o prefix \o language[1] \o CsvSuffix

\* the lang parameter of the link of a section: encodeURIComponent(language[0]),
\* decoded again by URLSearchParams
langParam(language) == language[1]

\* `../data/processed/${language}.csv` of the language page
csvPath(language) == LanguagePageFolder \o language \o CsvSuffix

InitPage ==
    /\ PageIdle
    /\ TableIdle
    /\ TruncIdle
    /\ SiteIdle
    /\ files = [p \in Paths |-> Absent]
    /\ atStart = files
    /\ run = 1
    /\ FreshRun
    /\ TwoIdle
    /\ RankIdle

\* languages.forEach(loadCSV): every download is started
LoadAll ==
    /\ \A i \in PagePositions : loadState[i] = "idle"
    /\ loadState' = [i \in PagePositions |-> "requested"]
    /\ requested' = [i \in PagePositions |->
                        csvUrl(ProcessedFolder, Top10Prefix, pageLanguages[i])]
    /\ UNCHANGED << loadedLanguagesCount, sortableInits, tableClasses, tableVars, notWeb >>

\* the download of a language's CSV fails: Papa.parse calls the error callback
\* of its configuration, and loadCSV gives none
LoadFailed(i) ==
    /\ loadState[i] = "requested"
    /\ loadState' = [loadState EXCEPT ![i] = "error"]
    /\ UNCHANGED << requested, loadedLanguagesCount, sortableInits, tableClasses, tableVars, notWeb >>

\* the complete callback of loadCSV: a table of the theme the body has, or a
\* text if no data row was parsed; then the counter
LoadComplete(i) ==
    /\ loadState[i] = "requested"
    /\ loadState' = [loadState EXCEPT ![i] = "complete"]
    /\ \E hasRows \in BOOLEAN :
          tableClasses' = [tableClasses EXCEPT ![i] =
              IF hasRows THEN [rendered |-> TRUE, classes |-> {ThemeClass(dark)}]
              ELSE NoTable]
    /\ loadedLanguagesCount' = loadedLanguagesCount + 1
    /\ sortableInits' = IF loadedLanguagesCount' = NumPageLangs
                          THEN sortableInits + 1 ELSE sortableInits
    /\ UNCHANGED << requested, tableVars, notWeb >>

NextPage ==
    \/ LoadAll
    \/ \E i \in PagePositions : LoadComplete(i)
    \/ \E i \in PagePositions : LoadFailed(i)

\* the index page after its script ran, whatever theme was stored
InitTheme ==
    /\ theme \in StoredThemes
    /\ dark = indexInitialDark(theme)
    /\ data = <<>>
    /\ section = NoSection
    /\ PageIdle
    /\ TruncIdle
    /\ SiteIdle
    /\ files = [p \in Paths |-> Absent]
    /\ atStart = files
    /\ run = 1
    /\ FreshRun
    /\ TwoIdle
    /\ RankIdle

\* the loads of the page and the clicks on its theme toggle, in any order
NextTheme ==
    \/ LoadAll
    \/ \E i \in PagePositions : LoadComplete(i)
    \/ \E i \in PagePositions : LoadFailed(i)
    \/ ThemeToggle

SpecTheme == InitTheme /\ [][NextTheme]_vars

SpecPage == InitPage /\ [][NextPage]_vars

\* every download that was started ends: the browser answers or gives up
SpecPageFair == InitPage /\ [][NextPage]_vars /\ WF_vars(NextPage)

-----------------------------------------------------------------------------
(* One call of truncateStringAtWord *)

\* texts of up to MaxTextLen characters, words of "a" and spaces
Texts == UNION { [1..n -> {"a", " "}] : n \in 0..MaxTextLen }

\* "I love birds"
ILoveBirds == <<"I", " ", "l", "o", "v", "e", " ", "b", "i", "r", "d", "s">>

\* the calls: every text with every limit, and the example with 10 and with 6
TruncCalls ==
    (Texts \X (0..MaxLimit)) \cup { <<ILoveBirds, 10>>, <<ILoveBirds, 6>> }

InitTrunc ==
    /\ \E c \in TruncCalls : text = c[1] /\ limit = c[2]
    /\ shown = NotShown
    /\ TableIdle
    /\ PageIdle
    /\ SiteIdle
    /\ files = [p \in Paths |-> Absent]
    /\ atStart = files
    /\ run = 1
    /\ FreshRun
    /\ TwoIdle
    /\ RankIdle

\* the call truncateStringAtWord(str, maxChars)
Truncate ==
    /\ shown = NotShown
    /\ shown' = truncateStringAtWord(text, limit)
    /\ UNCHANGED << text, limit, notTrunc >>

NextTrunc == Truncate

SpecTrunc == InitTrunc /\ [][NextTrunc]_vars

-----------------------------------------------------------------------------
(* The language page, and the themes of the two pages on load *)

\* the argument of the language page's first applyTheme:
\* savedTheme === 'dark' || (!savedTheme && prefersDark)
languageInitialDark(savedTheme, prefers) ==
    savedTheme = "dark" \/ (savedTheme = "absent" /\ prefers)

\* the text of the loading message when the URL has no lang parameter
NoLangError == "Error: Language not specified in URL."

\* what the callbacks of Papa.parse can be given: results.data of the length
\* 0 (nothing parsed), 1 (the header row only) or 2 (a data row), with or
\* without results.errors; or the download failed
LoadResults ==
    [dataLength : 0..2, errors : BOOLEAN, failed : {FALSE}]
        \cup {[dataLength |-> 0, errors |-> FALSE, failed |-> TRUE]}

\* the classes createTable of the language page gives a table
lpTableClasses(isDark) ==
    IF isDark THEN {"dark", "sortable-theme-dark"} ELSE {"sortable-theme-light"}

\* a table, or a paragraph of text, in language-content
LpTable(isDark) == [kind |-> "table", classes |-> lpTableClasses(isDark)]
LpMessage(what) == [kind |-> what, classes |-> {}]

\* applyTheme(isDark) of the language page, as to what language-content holds
lpApplyTheme(content, isDark) ==
    [i \in 1..Len(content) |->
        IF content[i].kind = "table"
          THEN [content[i] EXCEPT !.classes = lpTableClasses(isDark)]
          ELSE content[i]]

\* the lang parameters the page is opened with: none, a key of the index
\* page, a name no dataset exists for
LangQueries == { <<>>, pageLanguages[1][1], <<"X">> }

InitSite ==
    /\ theme \in StoredThemes
    /\ prefersDark \in BOOLEAN
    /\ langQuery \in LangQueries
    /\ indexInitial = NotOpened
    /\ lpInitial = NotOpened
    /\ lpDark = FALSE
    /\ lpPhase = "closed"
    /\ lpLoads = 0
    /\ lpLoading = "Loading"
    /\ lpContent = <<>>
    /\ lpResult = NoResult
    /\ data = <<>>
    /\ dark = FALSE
    /\ section = NoSection
    /\ PageIdle
    /\ TruncIdle
    /\ files = [p \in Paths |-> Absent]
    /\ atStart = files
    /\ run = 1
    /\ FreshRun
    /\ TwoIdle
    /\ RankIdle

\* the script of the index page, as to the theme: applyTheme(savedTheme === "dark")
OpenIndex ==
    /\ ~indexInitial.opened
    /\ dark' = indexInitialDark(theme)
    /\ indexInitial' = [saw |-> theme, dark |-> dark', opened |-> TRUE]
    /\ UNCHANGED << data, theme, section, langQuery, prefersDark, lpInitial, lpDark,
                    lpPhase, lpLoads, lpLoading, lpContent, lpResult, notSite >>

\* a handler that does not look whether the lang parameter is there
OpenLanguagePageNoCheck ==
    /\ lpPhase = "closed"
    /\ lpLoads' = lpLoads + 1
    /\ lpPhase' = "loading"
    /\ lpDark' = languageInitialDark(theme, prefersDark)
    /\ lpInitial' = [saw |-> theme, dark |-> lpDark', opened |-> TRUE]
    /\ UNCHANGED << lpLoading, lpContent, lpResult, langQuery, prefersDark,
                    indexInitial, tableVars, notSite >>

\* the DOMContentLoaded handler of the language page: without a lang
\* parameter the error text and return; else Papa.parse is started, the
\* theme applied and the click listener registered
OpenLanguagePage ==
    /\ lpPhase = "closed"
    /\ IF langQuery = <<>>
         THEN /\ lpLoading' = NoLangError
              /\ lpPhase' = "nolang"
              /\ lpInitial' = [saw |-> theme, dark |-> lpDark, opened |-> TRUE]
              /\ UNCHANGED << lpLoads, lpDark >>
         ELSE /\ lpLoads' = lpLoads + 1
              /\ lpPhase' = "loading"
              /\ lpDark' = languageInitialDark(theme, prefersDark)
              /\ lpInitial' = [saw |-> theme, dark |-> lpDark', opened |-> TRUE]
              /\ UNCHANGED lpLoading
    /\ UNCHANGED << lpContent, lpResult, langQuery, prefersDark, indexInitial,
                    tableVars, notSite >>

\* the complete callback of the language page
LpComplete ==
    /\ lpPhase = "loading"
    /\ \E r \in LoadResults :
          /\ ~r.failed
          /\ lpResult' = r
          /\ lpContent' =
                IF r.dataLength > 1 THEN lpContent \o << LpTable(lpDark) >>
                ELSE IF r.errors THEN << LpMessage("parse-error") >>
                ELSE << LpMessage("no-data") >>
    /\ lpLoading' = "hidden"
    /\ lpPhase' = "finished"
    /\ UNCHANGED << lpLoads, lpDark, lpInitial, langQuery, prefersDark, indexInitial,
                    tableVars, notSite >>

\* the error callback of the language page
LpError ==
    /\ lpPhase = "loading"
    /\ \E r \in LoadResults :
          /\ r.failed
          /\ lpResult' = r
    /\ lpContent' = << LpMessage("load-error") >>
    /\ lpLoading' = "hidden"
    /\ lpPhase' = "finished"
    /\ UNCHANGED << lpLoads, lpDark, lpInitial, langQuery, prefersDark, indexInitial,
                    tableVars, notSite >>

\* a click on the theme toggle of the language page
LpThemeToggle ==
    /\ lpPhase \in {"loading", "finished"}
    /\ lpDark' = ~lpDark
    /\ lpContent' = lpApplyTheme(lpContent, ~lpDark)
    /\ theme' = IF ~lpDark THEN "dark" ELSE "light"
    /\ UNCHANGED << lpPhase, lpLoads, lpLoading, lpResult, lpInitial, langQuery, prefersDark,
                    indexInitial, data, dark, section, notSite >>

NextSite ==
    \/ OpenIndex
    \/ OpenLanguagePage
    \/ LpComplete
    \/ LpError
    \/ LpThemeToggle

SpecSite == InitSite /\ [][NextSite]_vars

-----------------------------------------------------------------------------
(* Properties of the fetch script *)

\* the path fetch_repos derives for the language at position i
output_file(i) == get_fs_friendly_lang(RunLangs[i])

PresentKinds == {"empty", "partial", "full"}
CorruptKinds == {"empty", "partial"}

\* C1: a search call is issued for a language exactly when its artifact file
\* does not exist at the moment the language is reached, at most one call is
\* issued per language per run, and a run started with every artifact present
\* issues no call.  (A language the run was killed in before its call was
\* issued is not yet processed: the equivalence is stated for the languages the
\* run is through with.)
ThmC1 ==
    /\ \A i \in Positions :
          /\ calls[i] <= 1
          /\ calls[i] = 1 => reached[i].kind = "absent"
          /\ i < idx => (calls[i] = 1 <=> reached[i].kind = "absent")
    /\ (\A p \in Paths : atStart[p].kind # "absent") => \A i \in Positions : calls[i] = 0

WitC1 ==
    /\ pc = "done"
    /\ \E i, j \in Positions :
          /\ calls[i] = 1 /\ reached[i].kind = "absent"
          /\ calls[j] = 0 /\ reached[j].kind = "full"

\* C2: every artifact file the cached-check accepts (the language is skipped
\* as cached) holds the complete result of a successful search, also after a
\* run was killed while a search call was writing its output.
CexC2 ==
    \A i \in Positions : outcome[i] = "skipped" => reached[i].kind = "full"

\* C3 as claimed: a language whose artifact exists but is empty or corrupt
\* when it is reached is fetched again.
CexC3 ==
    \A i \in Positions :
        (i < idx /\ reached[i].kind \in CorruptKinds) => calls[i] = 1

\* C3 as amended: the cached-check reports an artifact as present exactly
\* when the file exists, whatever it holds: a language is skipped only if its
\* file existed, and a language whose file exists, be it empty or corrupt, is
\* skipped, no search call is issued for it and the file is left as it is.
ThmC3 ==
    \A i \in Positions :
        /\ outcome[i] = "skipped" => reached[i].kind \in PresentKinds
        /\ reached[i].kind \in PresentKinds =>
              /\ outcome[i] = "skipped"
              /\ calls[i] = 0
              /\ files[output_file(i)] = reached[i]

WitC3 ==
    \E i \in Positions :
        /\ reached[i].kind \in CorruptKinds
        /\ outcome[i] = "skipped"
        /\ files[output_file(i)] = reached[i]
        /\ pc = "done"

\* C4 as claimed: when a search call is about to be issued and an earlier
\* call was made in this run, at least DELAY_SECONDS have elapsed since that
\* call returned.
CexC4 ==
    (pc = "exec" /\ elapsed # -1) => elapsed >= DELAY_SECONDS

\* C4 as amended: when a search call is about to be issued and the language
\* immediately before it in the list ended in a successful search in this
\* run, at least DELAY_SECONDS have elapsed since that search returned.
ThmC4 ==
    (pc = "exec" /\ idx > 1 /\ outcome[idx - 1] = "saved") => elapsed >= DELAY_SECONDS

WitC4 ==
    /\ pc = "exec"
    /\ idx > 1
    /\ outcome[idx - 1] = "saved"
    /\ elapsed = DELAY_SECONDS

\* C5: a failed search (authentication failures included) does not halt the
\* run: the run goes on to the next language, a run that ends has processed
\* every language (skipped if its file existed, otherwise a search was made),
\* and each language's artifact depends on its own outcome only.
ThmC5 ==
    /\ \A i \in Positions : outcome[i] = "failed" => idx > i
    /\ pc = "done" =>
          \A i \in Positions :
              /\ outcome[i] \in {"skipped", "saved", "failed"}
              /\ outcome[i] = "skipped" <=> reached[i].kind \in PresentKinds
              /\ outcome[i] # "skipped" <=> calls[i] = 1
              /\ outcome[i] = "skipped" => files[output_file(i)] = atStart[output_file(i)]
              /\ outcome[i] = "saved" => files[output_file(i)] = FullFile(run)
              /\ outcome[i] = "failed" => files[output_file(i)] = Absent

WitC5 ==
    /\ pc = "done"
    /\ \E i, j, k \in Positions :
          /\ i < j /\ i < k
          /\ outcome[i] = "failed" /\ statuses[i] = 4
          /\ outcome[j] = "saved"
          /\ outcome[k] = "skipped"

\* C6 as claimed: a run that ends has exit status zero exactly when no
\* language failed.
CexC6 ==
    pc = "done" => (exitStatus = 0 <=> \A i \in Positions : outcome[i] # "failed")

\* C6 as amended: a run that reaches its end has exit status zero, whether
\* or not a language failed.
ThmC6 ==
    pc = "done" => exitStatus = 0

WitC6 ==
    /\ pc = "done"
    /\ exitStatus = 0
    /\ \E i \in Positions : outcome[i] = "failed"

\* C7 as claimed: a language whose first search attempt failed with a
\* transient error was tried again in the same run.
CexC7 ==
    \A i \in Positions : (i < idx /\ statuses[i] = 1) => calls[i] >= 2

\* C7 as amended: a language whose search attempt fails is not retried in
\* the same run: one attempt is made, the language ends the run failed and
\* no artifact is stored for it.
ThmC7 ==
    \A i \in Positions :
        (i < idx /\ statuses[i] \in GhStatuses \ {0}) =>
            /\ calls[i] = 1
            /\ outcome[i] = "failed"
            /\ files[output_file(i)] = Absent

WitC7 ==
    /\ pc = "done"
    /\ \E i \in Positions :
          /\ statuses[i] = 1
          /\ calls[i] = 1
          /\ outcome[i] = "failed"

\* C10: a run never deletes, truncates or overwrites an artifact that existed
\* when its language was reached: a step of a run changes only the file of
\* the language being processed, and only if that file did not exist when the
\* language was reached, and the only file a run deletes is one it created
\* itself for a search that then failed.
ThmC10 ==
    [][ run' = run =>
          \A p \in Paths :
              /\ files'[p] # files[p] =>
                    /\ p = fs_friendly_lang
                    /\ idx \in Positions
                    /\ reached[idx].kind = "absent"
              /\ (files[p] # Absent /\ files'[p] = Absent) =>
                    /\ idx \in created
                    /\ files[p].by = run
                    /\ outcome'[idx] = "failed"
      ]_vars

WitC10 ==
    /\ pc = "done"
    /\ \E i, j \in Positions :
          /\ outcome[i] = "skipped"
          /\ files[output_file(i)] = reached[i]
          /\ outcome[j] = "failed"
          /\ j \in created
          /\ files[output_file(j)] = Absent

\* C12 as claimed: when a search call is about to be issued after a search
\* call of this run failed, the script has waited DELAY_SECONDS at least.
CexC12 ==
    (pc = "exec" /\ elapsed # -1 /\ status # 0) => elapsed >= DELAY_SECONDS

\* C12 as amended: after a failed search call the script does not wait at all
\* before the next search call, however many calls failed in a row; after a
\* successful call it waits DELAY_SECONDS when the next call is made for the
\* language that follows in the list, and not at all otherwise.
ThmC12 ==
    (pc = "exec" /\ elapsed # -1) =>
        elapsed = IF status = 0 /\ outcome[idx - 1] = "saved" THEN DELAY_SECONDS ELSE 0

WitC12 ==
    /\ pc = "exec"
    /\ idx > 2
    /\ outcome[idx - 2] = "failed"
    /\ outcome[idx - 1] = "failed"
    /\ status # 0
    /\ elapsed = 0

AllTerminal == \A i \in Positions : outcome[i] \in {"skipped", "saved", "failed"}

\* C13: a run that nothing kills and whose search calls all return ends:
\* every language reaches a terminal outcome (skipped, saved or failed) and
\* the run prints its completion summary, whatever searches failed.
ThmC13 ==
    <>(pc = "done" /\ AllTerminal /\ exitStatus # -1)

WitC13 ==
    /\ pc = "done"
    /\ AllTerminal
    /\ \E i, j \in Positions : outcome[i] = "failed" /\ outcome[j] = "saved"

\* C19: the script sleeps DELAY_SECONDS before a search call exactly when the
\* language just before it in the list ended in a successful search in this
\* run; it sleeps at no other point, so never before the first language, after
\* a skipped language or a failed search, and never for a language it skips.
ThmC19 ==
    [][ LET slept == elapsed' = elapsed + DELAY_SECONDS
        IN  /\ (pc = "delay" /\ pc' = "exec") =>
                  (slept <=> (idx > 1 /\ outcome[idx - 1] = "saved"))
            /\ slept =>
                  /\ pc = "delay" /\ pc' = "exec"
                  /\ reached[idx].kind = "absent"
                  /\ outcome'[idx] = "pending"
      ]_vars

WitC19 ==
    /\ pc = "exec"
    /\ idx = 3
    /\ outcome[1] = "failed"
    /\ outcome[2] = "saved"
    /\ elapsed = DELAY_SECONDS

\* C20: when a search call returns a failure status, no artifact file of that
\* language is left when fetch_repos returns, none appears for the rest of the
\* run, the next run starts without it, and a run fetches every language whose
\* file is absent at its start.
ThmC20 ==
    /\ [](\A i \in Positions :
             (i < idx /\ atStart[output_file(i)] = Absent) => calls[i] = 1)
    /\ [][ /\ (pc = "verify" /\ status # 0 /\ pc' = "fetch_repos") =>
                  /\ files'[fs_friendly_lang] = Absent
                  /\ outcome'[idx] = "failed"
            /\ \A i \in Positions :
                  outcome[i] = "failed" =>
                      /\ files'[output_file(i)] = Absent
                      /\ run' # run => atStart'[output_file(i)] = Absent
          ]_vars

WitC20 ==
    /\ run = 2
    /\ \E i \in Positions :
          /\ atStart[output_file(i)] = Absent
          /\ calls[i] = 1
          /\ outcome[i] = "failed"
          /\ i \in created
          /\ files[output_file(i)] = Absent

-----------------------------------------------------------------------------
(* Properties of get_fs_friendly_lang *)

\* C8: slug derivation is injective over the configured language list: the
\* slug of a configured name is the slug of no other configured name, so no
\* two languages share an artifact path.  (That the same name always yields
\* the same slug holds because the slug is a function of "$1" alone.)
ThmC8 ==
    (fs_friendly_lang # Unset /\ lang \in ConfiguredNames) =>
        \A j \in 1..Len(languages) :
            languages[j] # lang => get_fs_friendly_lang(languages[j]) # fs_friendly_lang

WitC8 ==
    /\ lang = <<"c","#">>
    /\ fs_friendly_lang = <<"c","s","h","a","r","p">>

RECURSIVE CollapseFrom(_, _, _)
\* s from position i on, each run of characters that are no lowercase letter
\* and no digit collapsed to one "_"; inRun: position i - 1 is in such a run
CollapseFrom(s, i, inRun) ==
    IF i > Len(s) THEN <<>>
    ELSE IF IsLower(s[i]) \/ s[i] \in Digits
           THEN <<s[i]>> \o CollapseFrom(s, i + 1, FALSE)
    ELSE IF inRun THEN CollapseFrom(s, i + 1, TRUE)
    ELSE <<"_">> \o CollapseFrom(s, i + 1, TRUE)

\* the name lowercased, with every run of non-alphanumeric characters
\* collapsed to a single "_"
LoweredCollapsed(name) == CollapseFrom(tr(name), 1, FALSE)

\* the slug the claim gives: the overrides apply to the canonical names "C++",
\* "C#" and "Objective-C" (and to their lowercase forms of the configured list)
ClaimedSlug(name) ==
    CASE tr(name) = <<"c","+","+">> -> <<"c","p","p">>
      [] tr(name) = <<"c","#">> -> <<"c","s","h","a","r","p">>
      [] tr(name) = <<"o","b","j","e","c","t","i","v","e","-","c">>
            -> <<"o","b","j","e","c","t","i","v","e","_","c">>
      [] OTHER -> LoweredCollapsed(name)

\* the slug of the amended claim: the overrides apply to the lowercase names
\* "c++", "c#" and "objective-c" only
AmendedSlug(name) ==
    CASE name = <<"c","+","+">> -> <<"c","p","p">>
      [] name = <<"c","#">> -> <<"c","s","h","a","r","p">>
      [] name = <<"o","b","j","e","c","t","i","v","e","-","c">>
            -> <<"o","b","j","e","c","t","i","v","e","_","c">>
      [] OTHER -> LoweredCollapsed(name)

\* C9 as claimed: the derived slug is the name lowercased with every run of
\* non-alphanumeric characters collapsed to one "_", except that the canonical
\* names "C++", "C#" and "Objective-C" yield cpp, csharp and objective_c.
CexC9 ==
    fs_friendly_lang # Unset => fs_friendly_lang = ClaimedSlug(lang)

\* C9 as amended: the derived slug is the name lowercased with every run of
\* non-alphanumeric characters collapsed to one "_", except that the names
\* "c++", "c#" and "objective-c", written in lowercase as in the configured
\* list, yield cpp, csharp and objective_c; the capitalised "C++" and "C#"
\* follow the general rule.
ThmC9 ==
    fs_friendly_lang # Unset => fs_friendly_lang = AmendedSlug(lang)

WitC9 ==
    /\ lang = <<"C","+","+">>
    /\ fs_friendly_lang = <<"c","_">>

-----------------------------------------------------------------------------
(* Properties of two invocations running at the same time *)

\* the second invocation is between its cached-check and its return for the
\* language at position i
BusyB(i) == idxB = i /\ pcB \in {"exec", "gh", "verify"}

\* the first invocation is between its cached-check and its return for the
\* language at position i
BusyA(i) == idx = i /\ pc \in {"delay", "exec", "gh", "verify"}

\* C11 as claimed: with two runs started on the same output directory, never
\* do both write the artifact file of the same language at the same time, and
\* never does one delete it while the other writes it.
CexC11 ==
    /\ ~(pc = "gh" /\ pcB = "gh" /\ fs_friendly_lang = fsB)
    /\ ~(pc = "verify" /\ status # 0 /\ pcB = "gh" /\ fs_friendly_lang = fsB)
    /\ ~(pcB = "verify" /\ statusB # 0 /\ pc = "gh" /\ fs_friendly_lang = fsB)

\* C11 as amended: the file-existence check is the only guard between two
\* runs.  A run that reaches a language when its file exists, be it the file
\* the other run's search call has just created, skips the language and does
\* not write the file; two runs that both reach the language before either
\* has created the file both write it.
ThmC11 ==
    \A i \in Positions :
        /\ reached[i].kind \in PresentKinds => (~BusyA(i) /\ calls[i] = 0)
        /\ reachedB[i].kind \in PresentKinds => ~BusyB(i)
        /\ BusyA(i) => reached[i].kind = "absent"
        /\ BusyB(i) => reachedB[i].kind = "absent"

WitC11 ==
    /\ pc = "gh"
    /\ pcB = "gh"
    /\ fs_friendly_lang = fsB
    /\ reached[idx].kind = "absent"
    /\ reachedB[idxB].kind = "absent"
    /\ \E j \in Positions : reachedB[j].kind = "empty" /\ reachedB[j].by = run

-----------------------------------------------------------------------------
(* Properties of one language's way to its output files *)

HeaderOnly == [header |-> Header, rows |-> <<>>]

\* C16: a search that succeeds with an empty result set is no failure: the
\* artifact is stored, the language does not end failed, and its output files
\* hold the header row only.
ThmC16 ==
    (raw = <<>> /\ ghStatus = 0) =>
        /\ langState \in {"Fetched", "Written"}
        /\ artifact = [stored |-> TRUE, records |-> <<>>]
        /\ langState = "Written" => (fullOut = HeaderOnly /\ top10Out = HeaderOnly)

WitC16 ==
    /\ raw = <<>>
    /\ ghStatus = 0
    /\ langState = "Written"
    /\ fullOut = HeaderOnly

\* the position of the record of full name n in the ranked rows
RowOf(rows, n) == CHOOSE i \in 1..Len(rows) : rows[i].name = n

ExampleRaw ==
    << [name |-> "a/a", stars |-> 5], [name |-> "b/b", stars |-> 10],
       [name |-> "c/c", stars |-> 10] >>

\* C17: for every non-empty raw record list the ranked output holds every
\* record once, is ordered by non-increasing stars, keeps the input order of
\* records of equal stars, and its ranks are 1..n; a/a=5, b/b=10, c/c=10
\* yields b/b first, c/c second, a/a third.
ThmC17 ==
    (langState = "Written" /\ raw # <<>>) =>
        LET rows == fullOut.rows
        IN  /\ Len(rows) = Len(raw)
            /\ \A i \in 1..Len(rows) : rows[i].rank = i
            /\ \A i \in 1..Len(rows) - 1 : rows[i].stars >= rows[i + 1].stars
            /\ \A k \in 1..Len(raw) :
                  \E i \in 1..Len(rows) :
                      rows[i].name = raw[k].name /\ rows[i].stars = raw[k].stars
            /\ \A k, l \in 1..Len(raw) :
                  (k < l /\ raw[k].stars = raw[l].stars) =>
                      RowOf(rows, raw[k].name) < RowOf(rows, raw[l].name)
            /\ raw = ExampleRaw =>
                  rows = << [rank |-> 1, name |-> "b/b", stars |-> 10],
                            [rank |-> 2, name |-> "c/c", stars |-> 10],
                            [rank |-> 3, name |-> "a/a", stars |-> 5] >>

WitC17 ==
    /\ raw = ExampleRaw
    /\ langState = "Written"
    /\ fullOut.rows[1].name = "b/b"
    /\ fullOut.rows[3].rank = 3

-----------------------------------------------------------------------------
(* Properties of the preview table *)

\* t is the text s, or s cut at TRUNCATE_AT characters or before, "..." appended
Shows(t, s) ==
    \/ t = s
    \/ /\ Len(s) > TRUNCATE_AT
       /\ Len(t) >= Len(Ellipsis)
       /\ Len(t) <= TRUNCATE_AT + Len(Ellipsis)
       /\ SubSeq(t, Len(t) - Len(Ellipsis) + 1, Len(t)) = Ellipsis
       /\ SubSeq(t, 1, Len(t) - Len(Ellipsis)) = SubSeq(s, 1, Len(t) - Len(Ellipsis))

\* number of data rows of the parsed dataset
NumDataRows == IF Len(data) > 0 THEN Len(data) - 1 ELSE 0

-----------------------------------------------------------------------------
(* Properties of the index page *)

\* the name under which the fetch stage knows the i-th language of the page:
\* its displayed name in lower case
FetchNameOf(i) == tr(pageLanguages[i][2])

\* the slug the fetch stage derives for the i-th language of the page
FetchSlugOf(i) == get_fs_friendly_lang(FetchNameOf(i))

\* The statement of C15 as the specification has it: the paths are built from
\* the slug of the fetch stage.
CexC15 ==
    \A i \in PagePositions :
        loadState[i] # "idle" =>
            requested[i] = ProcessedFolder \o <<"/">> \o Top10Prefix \o FetchSlugOf(i) \o CsvSuffix

\* C15: the pages build the dataset paths from the file key of their own
\* language list ("top10_<key>.csv", "<key>.csv"), and that key is never the
\* slug of the fetch stage; for every language the fetch stage configures,
\* the key lowercased, with every run of non-alphanumeric characters replaced
\* by "_", is that slug.
ThmC15 ==
    /\ \A i \in PagePositions :
          loadState[i] # "idle" =>
              requested[i] = ProcessedFolder \o <<"/">> \o Top10Prefix
                                 \o pageLanguages[i][1] \o CsvSuffix
    /\ \A i \in 1..Len(pageLanguages) :
          LET key == pageLanguages[i][1]
          IN  /\ csvPath(langParam(pageLanguages[i])) = LanguagePageFolder \o key \o CsvSuffix
              /\ key # FetchSlugOf(i)
              /\ FetchNameOf(i) \in ConfiguredNames => DefaultSlug(key) = FetchSlugOf(i)
    /\ \A n \in ConfiguredNames : \E i \in 1..Len(pageLanguages) : FetchNameOf(i) = n

WitC15 ==
    /\ loadState[4] = "requested"
    /\ requested[4] = ProcessedFolder \o <<"/">> \o Top10Prefix \o <<"C", "P", "P">> \o CsvSuffix
    /\ FetchSlugOf(4) = <<"c", "p", "p">>

AllHandled == \A i \in PagePositions : loadState[i] \in {"complete", "error"}

\* The statement of C18: whatever the outcomes of the loads, Sortable.init is
\* called exactly once, not before every load has been handled, and it is
\* called in the end even when a download fails.
CexC18 ==
    /\ [](sortableInits <= 1)
    /\ [](sortableInits = 1 => AllHandled)
    /\ <>(sortableInits = 1)

-----------------------------------------------------------------------------
(* Properties of truncateStringAtWord *)

\* position k of text is the end of a word: a character that is no space,
\* followed by a space or by the end of the text
WordEnd(k) ==
    /\ k \in 1..Len(text)
    /\ text[k] # " "
    /\ k = Len(text) \/ text[k + 1] = " "

\* the end of the last whole word within the first limit characters, 0 if
\* no whole word fits
LastWordEnd ==
    IF \E k \in 1..limit : WordEnd(k)
      THEN CHOOSE k \in 1..limit : WordEnd(k) /\ \A j \in (k + 1)..limit : ~WordEnd(j)
      ELSE 0

HasSpace(s) == \E i \in 1..Len(s) : s[i] = " "

-----------------------------------------------------------------------------
(* Properties of the themes *)

SortableThemes == {"sortable-theme-dark", "sortable-theme-light"}

\* C22: on the index page, whatever the order of load completions and
\* clicks on the theme toggle, every table in the DOM carries exactly one of
\* the two sortable-theme classes, the dark one exactly if the body has the
\* class "dark"; and after every click the stored theme is the displayed one.
ThmC22 ==
    /\ [](\A i \in PagePositions :
            tableClasses[i].rendered =>
               /\ Cardinality(tableClasses[i].classes \cap SortableThemes) = 1
               /\ "sortable-theme-dark" \in tableClasses[i].classes <=> dark)
    /\ [][ dark' # dark => theme' = (IF dark' THEN "dark" ELSE "light") ]_vars

WitC22 ==
    /\ \E i, j \in PagePositions :
          /\ i # j
          /\ tableClasses[i].rendered
          /\ tableClasses[j].rendered
          /\ tableClasses[i].classes = {"sortable-theme-dark"}
          /\ loadState[j] = "complete"
    /\ \E k \in PagePositions : loadState[k] = "requested"
    /\ dark
    /\ theme = "dark"

\* The statement of C23: opened with the same stored theme, the index page
\* and the language page (given a lang parameter, so that its handler runs
\* to its end) apply the same theme, whatever the system prefers.
CexC23 ==
    (/\ indexInitial.opened
     /\ lpInitial.opened
     /\ langQuery # <<>>
     /\ indexInitial.saw = lpInitial.saw)
        => indexInitial.dark = lpInitial.dark

\* C24: without a lang parameter the language page shows the error text and
\* stops there: it starts no load and never holds a table. With one it
\* starts exactly one load, and when that has ended the loading message is
\* hidden and language-content holds one thing: a table if more than the
\* header row was parsed, a message otherwise.
ThmC24 ==
    /\ [](/\ langQuery = <<>> => lpPhase \in {"closed", "nolang"}
          /\ lpPhase = "nolang" =>
                (langQuery = <<>> /\ lpLoading = NoLangError /\ lpLoads = 0 /\ lpContent = <<>>)
          /\ lpPhase = "closed" => (lpLoads = 0 /\ lpContent = <<>>)
          /\ lpPhase \in {"loading", "finished"} => (langQuery # <<>> /\ lpLoads = 1)
          /\ lpPhase = "loading" => lpContent = <<>>
          /\ lpPhase = "finished" =>
                /\ lpLoading = "hidden"
                /\ Len(lpContent) = 1
                /\ lpContent[1].kind = "table" <=> (~lpResult.failed /\ lpResult.dataLength > 1)
                /\ lpContent[1].kind \in {"table", "parse-error", "no-data", "load-error"})
    /\ [][ /\ lpPhase = "nolang" => lpPhase' = "nolang"
           /\ lpPhase = "finished" => lpPhase' = "finished" ]_vars

WitC24 ==
    /\ langQuery # <<>>
    /\ lpPhase = "finished"
    /\ lpLoads = 1
    /\ lpLoading = "hidden"
    /\ lpContent = << LpTable(lpDark) >>

====
